---- MODULE Spec2Model ----
(***************************************************************************)
(* Model of the occupancy-editor grid state store (src/src/hooks/useGrid.ts)*)
(* together with the callers that drive it: the canvas' modifyGrid and the  *)
(* App's import handler.                                                    *)
(*                                                                          *)
(* Buffers (Int8Array) are sequences; the 0-based index i of the code is    *)
(* element i+1 of the sequence.  historyIndex keeps the code's 0-based      *)
(* value, so the cursor entry is history[historyIndex + 1].                 *)
(* An optional point (start?, goal?) is a set holding at most one point.    *)
(* Resolution is counted in hundredths of a metre (0.05 m is 5).            *)
(***************************************************************************)
EXTENDS Integers, Sequences, FiniteSets, TLC

\* ------------------------------------------------------------- constants
CELL_FREE == 0
CELL_OCCUPIED == 100
CELL_UNKNOWN == -1
MAX_HISTORY == 20
\* validators: the safety cap of width and height
MaxSide == 2000
InitialResolution == 5
\* generateRandomMap: the attempts made per shape asked for
AttemptsPerShape == 100
\* GeneratorPanel: the least width and length of a bugtrap
BtSideMin == 5

\* ---------------------------------------------------------------- bounds
\* Spec: grid sides range over 1..MaxDim, the history grows to MaxEntries.
MaxDim == 2
MaxEntries == 3
\* SpecLong: a LongWidth x 1 strip, painted one cell per stroke.
LongWidth == 26
\* SpecResize: source sides 1..SrcMax, target sides 1..DstMax, offsets
\* -OffMax..OffMax.
SrcMax == 3
DstMax == 5
OffMax == 2
\* SpecCoords: grid sides 1..CoordMax, points with coordinates -PtMax..PtMax
CoordMax == 4
PtMax == 5
\* SpecMaze: grid sides 1..MazeMax
MazeMax == 8
\* SpecBugtrap: grid sides 1..BtGridMax, trap width and length
\* BtSideMin..BtSideMax, thickness 1..BtThickMax, aperture 0..BtApMax
BtGridMax == 6
BtSideMax == 6
BtThickMax == 6
BtApMax == 3
\* SpecGenerators: grid sides 1..GenGridMax, shapes of sizes 1..GenSizeMax
GenGridMax == 3
GenSizeMax == 2
\* SpecDrag: a handle is dragged by up to DragMax cells either way
DragMax == 3
\* SpecHeap: a grid of HeapSide by HeapSide cells, HeapOps mutating calls
HeapSide == 3
HeapOps == 3
\* SpecEncode: grids of up to EncCells cells
EncCells == 4
\* SpecScatter: grids of 1..ScWidthMax by 1..ScHeightMax cells, two shapes of
\* sizes 1..ScSizeMax, the first ScAttempts attempts of the shape loop
ScWidthMax == 3
ScHeightMax == 2
ScSizeMax == 2
ScAttempts == 2

VARIABLES
    width,          \* useState(initialWidth)
    height,         \* useState(initialHeight)
    gridData,       \* useState<GridData>
    metadata,       \* useState<GridMetadata>
    history,        \* historyRef.current
    historyIndex,   \* historyIndexRef.current
    rendered,       \* the values the callbacks of the last render closed over
    importMeta,     \* handleImport between its two store calls: {adjustedMetadata}
    last,           \* observer: the store call made last
    run,            \* observer: the current run of commits / undos / redos
    calc,           \* the utility function applied last: its inputs and result
    heap            \* the Int8Array objects and who refers to which of them

vars == <<width, height, gridData, metadata, history, historyIndex,
          rendered, importMeta, last, run, calc, heap>>

storeVars == <<width, height, gridData, metadata>>

\* ------------------------------------------------------------ data model
Max(a, b) == IF a >= b THEN a ELSE b
Min(a, b) == IF a <= b THEN a ELSE b

Point(x, y) == [x |-> x, y |-> y]

\* new Int8Array(n).fill(v)
Filled(n, v) == [i \in 1..n |-> v]

\* GridState
GridState(w, h, d, m) == [width |-> w, height |-> h, data |-> d, metadata |-> m]

\* the state the hook returns: { width, height, gridData, metadata }
Current == GridState(width, height, gridData, metadata)

\* useState initial values of the hook
InitialMetadata ==
    [resolution |-> InitialResolution,
     origin |-> [x |-> 0, y |-> 0, theta |-> 0],
     start |-> {},
     goal |-> {}]

\* data[i] of a typed array: undefined outside the buffer
InBuffer(d, i) == i >= 0 /\ i < Len(d)

\* newData[i] = v on a typed array: a store outside the buffer is dropped
WriteCell(d, i, v) == IF InBuffer(d, i) THEN [d EXCEPT ![i + 1] = v] ELSE d

\* the Int8 a typed-array store makes of data[i]; undefined becomes 0
ReadCellAsInt8(d, i) == IF InBuffer(d, i) THEN d[i + 1] ELSE 0

\* ---------------------------------------------------------------- history
\* canUndo that is off by one
canUndoFromZero == historyIndex >= 0

canUndo == historyIndex > 0
canRedo == historyIndex < Len(history) - 1

\* historyRef.current.slice(0, currentIndex + 1)
SliceToCursor == SubSeq(history, 1, historyIndex + 1)

\* saveToHistory that pops the entry it has just pushed instead of shifting
\* the oldest one out
SaveToHistoryPop(newState) ==
    LET newHistory == Append(SliceToCursor, newState)
        capped == IF Len(newHistory) > MAX_HISTORY
                  THEN SubSeq(newHistory, 1, MAX_HISTORY)
                  ELSE newHistory
    IN  /\ history' = capped
        /\ historyIndex' = Len(capped) - 1

\* saveToHistory that keeps the entries after the cursor (a redo branch)
SaveToHistoryKeepRedo(newState) ==
    LET newHistory == Append(history, newState)
        capped == IF Len(newHistory) > MAX_HISTORY THEN Tail(newHistory)
                  ELSE newHistory
    IN  /\ history' = capped
        /\ historyIndex' = Len(capped) - 1

\* saveToHistory that skips a state equal to the cursor entry
SaveToHistoryDedup(newState) ==
    IF history[historyIndex + 1] = newState
    THEN UNCHANGED <<history, historyIndex>>
    ELSE LET newHistory == Append(SliceToCursor, newState)
             capped == IF Len(newHistory) > MAX_HISTORY THEN Tail(newHistory)
                       ELSE newHistory
         IN  /\ history' = capped
             /\ historyIndex' = Len(capped) - 1

\* saveToHistory(newState)
SaveToHistory(newState) ==
    LET newHistory == Append(SliceToCursor, newState)
        capped == IF Len(newHistory) > MAX_HISTORY THEN Tail(newHistory)
                  ELSE newHistory
    IN  /\ history' = capped
        /\ historyIndex' = Len(capped) - 1

\* the re-render that follows a handler: the callbacks close over the new state
Render ==
    rendered' = GridState(width', height', gridData', metadata')

\* ------------------------------------------------------------- observers
\* last: the store function called last and its arguments; cut is the number
\* of entries that lay after the cursor when it was called, atEnd tells that
\* an undo / redo found the cursor at the end it moves towards, repeat that
\* the call before was the same call with the same arguments.
Call(op, args) ==
    [op |-> op, args |-> args,
     cut |-> Len(history) - (historyIndex + 1),
     atEnd |-> \/ op = "undo" /\ historyIndex = 0
               \/ op = "redo" /\ historyIndex = Len(history) - 1,
     repeat |-> last.op = op /\ last.args = args]

NoCall == [op |-> "none", args |-> <<>>, cut |-> 0, atEnd |-> FALSE,
           repeat |-> FALSE]

Observe(op, args) == last' = Call(op, args)

MutatingOps == {"updateGrid", "resize", "clearGrid", "setStart", "setGoal",
                "clearStart", "clearGoal", "updateMetadata"}

\* run: n commits in a row, then k undos, then r redos.  s0 is the state
\* before the first commit, sN the state after the last one; fresh tells that
\* the run began on the store as constructed.
NoState == GridState(0, 0, <<>>, InitialMetadata)

RunOf(phase, fresh, n, k, r, s0, sN) ==
    [phase |-> phase, fresh |-> fresh, n |-> n, k |-> k, r |-> r,
     s0 |-> s0, sN |-> sN]

RunInit == RunOf("init", TRUE, 0, 0, 0, NoState, NoState)
RunIdle == RunOf("idle", FALSE, 0, 0, 0, NoState, NoState)

WellFormed(d, w, h) == Len(d) = w * h

\* a call of updateGrid counts as a commit when its buffer is well-formed
RunCommit ==
    run' = IF ~WellFormed(gridData', width', height') THEN RunIdle
           ELSE IF run.phase = "commit"
           THEN [run EXCEPT !.n = @ + 1, !.sN = Current']
           ELSE RunOf("commit", run.phase = "init", 1, 0, 0, Current, Current')

RunUndo ==
    run' = IF run.phase \in {"commit", "undo"} /\ run.k < run.n
           THEN [run EXCEPT !.phase = "undo", !.k = @ + 1]
           ELSE RunIdle

RunRedo ==
    run' = IF \/ run.phase = "undo" /\ run.k = run.n
              \/ run.phase = "redo" /\ run.r < run.n
           THEN [run EXCEPT !.phase = "redo", !.r = @ + 1]
           ELSE RunIdle

RunOther == run' = RunIdle

\* ------------------------------------------------------------- operations
\* updateGrid(newData, newWidth, newHeight)
UpdateGrid(newData, newWidth, newHeight) ==
    /\ gridData' = newData
    /\ width' = IF newWidth # rendered.width THEN newWidth ELSE width
    /\ height' = IF newHeight # rendered.height THEN newHeight ELSE height
    /\ metadata' = metadata
    /\ SaveToHistory(GridState(newWidth, newHeight, newData, rendered.metadata))

\* undo()
Undo ==
    /\ importMeta = {}
    /\ IF historyIndex > 0
       THEN LET state == history[historyIndex]
            IN  /\ historyIndex' = historyIndex - 1
                /\ gridData' = state.data
                /\ width' = state.width
                /\ height' = state.height
                /\ metadata' = state.metadata
       ELSE UNCHANGED <<historyIndex, storeVars>>
    /\ UNCHANGED <<history, importMeta>>
    /\ Render
    /\ Observe("undo", <<>>)

\* redo()
Redo ==
    /\ importMeta = {}
    /\ IF historyIndex < Len(history) - 1
       THEN LET state == history[historyIndex + 2]
            IN  /\ historyIndex' = historyIndex + 1
                /\ gridData' = state.data
                /\ width' = state.width
                /\ height' = state.height
                /\ metadata' = state.metadata
       ELSE UNCHANGED <<historyIndex, storeVars>>
    /\ UNCHANGED <<history, importMeta>>
    /\ Render
    /\ Observe("redo", <<>>)

\* modifyGrid([p], explicitValue) of the canvas: the buffer it hands to
\* onUpdate, and whether it calls onUpdate at all
ModifyGrid(p, targetVal) ==
    LET idx == p.y * rendered.width + p.x
        inGrid == /\ p.x >= 0 /\ p.x < rendered.width
                  /\ p.y >= 0 /\ p.y < rendered.height
        differs == \/ ~InBuffer(rendered.data, idx)
                   \/ rendered.data[idx + 1] # targetVal
    IN  [changed |-> inGrid /\ differs,
         newData |-> IF inGrid /\ differs
                     THEN WriteCell(rendered.data, idx, targetVal)
                     ELSE rendered.data]

\* a stroke on the canvas: modifyGrid, then handleGridUpdate -> updateGrid
Draw(p, targetVal) ==
    LET m == ModifyGrid(p, targetVal)
    IN  /\ importMeta = {}
        /\ m.changed
        /\ UpdateGrid(m.newData, rendered.width, rendered.height)
        /\ UNCHANGED importMeta
        /\ Render
        /\ Observe("updateGrid",
                   <<rendered.width, rendered.height, Len(m.newData)>>)

\* clearGrid that resets the markers too
ClearGridAndMarkers ==
    LET newData == Filled(rendered.width * rendered.height, CELL_FREE)
        newMeta == [rendered.metadata EXCEPT !.start = {}, !.goal = {}]
    IN  /\ importMeta = {}
        /\ gridData' = newData
        /\ metadata' = newMeta
        /\ UNCHANGED <<width, height, importMeta>>
        /\ SaveToHistory(GridState(rendered.width, rendered.height, newData,
                                   newMeta))
        /\ rendered' = GridState(width', height', gridData', metadata')
        /\ last' = [op |-> "clearGrid", args |-> <<>>,
                    cut |-> Len(history) - (historyIndex + 1),
                    atEnd |-> FALSE, repeat |-> last.op = "clearGrid"]

\* clearGrid()
ClearGrid ==
    LET newData == Filled(rendered.width * rendered.height, CELL_FREE)
    IN  /\ importMeta = {}
        /\ UpdateGrid(newData, rendered.width, rendered.height)
        /\ UNCHANGED importMeta
        /\ Render
        /\ Observe("clearGrid", <<>>)

\* the metadata-only calls: setMetadata(newMeta), saveToHistory({width,
\* height, data: gridData, metadata: newMeta})
CommitMetadata(newMeta) ==
    /\ metadata' = newMeta
    /\ SaveToHistory(GridState(rendered.width, rendered.height, rendered.data,
                               newMeta))
    /\ UNCHANGED <<width, height, gridData>>

\* setStart(x, y)
SetStart(x, y) ==
    /\ importMeta = {}
    /\ CommitMetadata([rendered.metadata EXCEPT !.start = {Point(x, y)}])
    /\ UNCHANGED importMeta
    /\ Render
    /\ Observe("setStart", <<x, y>>)

\* setGoal that builds its metadata without the start marker
SetGoalDropsStart(x, y) ==
    /\ importMeta = {}
    /\ CommitMetadata([rendered.metadata EXCEPT !.goal = {Point(x, y)},
                                               !.start = {}])
    /\ UNCHANGED importMeta
    /\ Render
    /\ Observe("setGoal", <<x, y>>)

\* setGoal(x, y)
SetGoal(x, y) ==
    /\ importMeta = {}
    /\ CommitMetadata([rendered.metadata EXCEPT !.goal = {Point(x, y)}])
    /\ UNCHANGED importMeta
    /\ Render
    /\ Observe("setGoal", <<x, y>>)

\* clearStart()
ClearStart ==
    /\ importMeta = {}
    /\ CommitMetadata([rendered.metadata EXCEPT !.start = {}])
    /\ UNCHANGED importMeta
    /\ Render
    /\ Observe("clearStart", <<>>)

\* clearGoal()
ClearGoal ==
    /\ importMeta = {}
    /\ CommitMetadata([rendered.metadata EXCEPT !.goal = {}])
    /\ UNCHANGED importMeta
    /\ Render
    /\ Observe("clearGoal", <<>>)

\* updateMetadata(newMetadata)
UpdateMetadata(newMetadata) ==
    CommitMetadata(newMetadata)

\* resizeGrid that indexes the new buffer with the old width
ResizeDataOldStride(newWidth, newHeight, originX, originY) ==
    LET w == rendered.width
        h == rendered.height
        copy[k \in 0..(w * h)] ==
            IF k = 0 THEN Filled(newWidth * newHeight, CELL_FREE)
            ELSE LET y == (k - 1) \div w
                     x == (k - 1) % w
                     destY == y + originY
                     destX == x + originX
                 IN  IF destY < 0 \/ destY >= newHeight THEN copy[k - 1]
                     ELSE IF destX < 0 \/ destX >= newWidth THEN copy[k - 1]
                     ELSE WriteCell(copy[k - 1], destY * w + destX,
                                    ReadCellAsInt8(rendered.data, y * w + x))
    IN  copy[w * h]

\* the buffer resizeGrid builds: FREE-filled, then every old cell (x, y)
\* whose destination lies in the new grid is stored at (x + originX, y + originY)
ResizeData(newWidth, newHeight, originX, originY) ==
    LET w == rendered.width
        h == rendered.height
        copy[k \in 0..(w * h)] ==
            IF k = 0 THEN Filled(newWidth * newHeight, CELL_FREE)
            ELSE LET y == (k - 1) \div w
                     x == (k - 1) % w
                     destY == y + originY
                     destX == x + originX
                 IN  IF destY < 0 \/ destY >= newHeight THEN copy[k - 1]
                     ELSE IF destX < 0 \/ destX >= newWidth THEN copy[k - 1]
                     ELSE WriteCell(copy[k - 1], destY * newWidth + destX,
                                    ReadCellAsInt8(rendered.data, y * w + x))
    IN  copy[w * h]

\* resize(newWidth, newHeight, originX, originY)
ResizeGrid(newWidth, newHeight, originX, originY) ==
    LET newData == ResizeData(newWidth, newHeight, originX, originY)
    IN  /\ importMeta = {}
        /\ UpdateGrid(newData, newWidth, newHeight)
        /\ UNCHANGED importMeta
        /\ Render
        /\ Observe("resize", <<newWidth, newHeight, originX, originY>>)

\* ----------------------------------------------------------------- import
TheOne(S) == CHOOSE p \in S : TRUE

\* handleImport, CSV branch: the metadata it hands to updateMetadata.  The
\* file's start is a display point, its goal is relative to that start.
CsvAdjustedMetadata(file) ==
    LET centerX == file.width \div 2
        centerY == file.height \div 2
        startDisplay == IF file.start # {} THEN TheOne(file.start)
                        ELSE Point(0, 0)
    IN  [resolution |-> rendered.metadata.resolution,
         origin |-> [x |-> 0, y |-> 0, theta |-> 0],
         start |-> IF file.start # {}
                   THEN {Point(startDisplay.x + centerX, startDisplay.y + centerY)}
                   ELSE {Point(centerX, centerY)},
         goal |-> IF file.goal # {}
                  THEN LET g == TheOne(file.goal)
                       IN  {Point(startDisplay.x + g.x + centerX,
                                  startDisplay.y + g.y + centerY)}
                  ELSE {}]

\* handleImport, JSON branch: GridImportSchema keeps resolution and origin of
\* the file's metadata only, so the start is always set to the centre
JsonAdjustedMetadata(file) ==
    [resolution |-> file.resolution,
     origin |-> file.origin,
     start |-> {Point(file.width \div 2, file.height \div 2)},
     goal |-> {}]

\* A parsed JSON text is a function from its keys; its width and height are
\* counted in halves of a cell, so that a side that is no integer can be
\* written, and its resolution in hundredths of a metre.
IsInt(halves) == halves % 2 = 0

\* z.object: the keys of the schema are kept, every other key is dropped
Strip(object, keys) == [k \in keys |-> object[k]]

\* GridMetadataSchema accepts the object
MetadataAccepted(md) ==
    /\ {"resolution", "origin"} \subseteq DOMAIN md
    /\ md.resolution > 0
    /\ {"x", "y", "theta"} \subseteq DOMAIN md.origin

\* GridImportSchema accepts the object
ImportAccepted(json) ==
    /\ {"width", "height", "data", "metadata"} \subseteq DOMAIN json
    /\ IsInt(json.width) /\ json.width > 0 /\ json.width <= 2 * MaxSide
    /\ IsInt(json.height) /\ json.height > 0 /\ json.height <= 2 * MaxSide
    /\ MetadataAccepted(json.metadata)

\* GridImportSchema.parse(json): it throws, or returns the parsed object
GridImportParse(json) ==
    IF ImportAccepted(json)
    THEN [threw |-> FALSE,
          value |-> [width |-> json.width, height |-> json.height,
                     data |-> json.data,
                     metadata |->
                         [resolution |-> json.metadata.resolution,
                          origin |-> Strip(json.metadata.origin,
                                           {"x", "y", "theta"})]]]
    ELSE [threw |-> TRUE]

\* handleImport, first store call: updateGrid(parsed.data, parsed.width,
\* parsed.height); updateMetadata follows in the same handler, before React
\* renders again
ImportUpdateGrid(file, adjustedMetadata) ==
    /\ importMeta = {}
    /\ UpdateGrid(file.data, file.width, file.height)
    /\ importMeta' = {adjustedMetadata}
    /\ UNCHANGED rendered
    /\ Observe("updateGrid", <<file.width, file.height, Len(file.data)>>)

ImportCSV(file) == ImportUpdateGrid(file, CsvAdjustedMetadata(file))

ImportJSON(file) == ImportUpdateGrid(file, JsonAdjustedMetadata(file))

\* handleImport, second store call: updateMetadata(adjustedMetadata), made
\* through the callback of the render that preceded the import
ImportUpdateMetadata ==
    /\ importMeta # {}
    /\ UpdateMetadata(TheOne(importMeta))
    /\ importMeta' = {}
    /\ Render
    /\ Observe("updateMetadata", <<>>)

\* ------------------------------------------------------------ GridCanvas
\* Math.floor(num / den) for den > 0
Floor(num, den) == num \div den

\* displayToInternal(dx, dy)
DisplayToInternal(dx, dy, activeW, activeH) ==
    LET centerX == Floor(activeW, 2)
        centerY == Floor(activeH, 2)
    IN  Point(Floor(dx + centerX, 1), Floor(dy + centerY, 1))

\* internalToDisplay with the centre rounded up
InternalToDisplayCeil(ix, iy, activeW, activeH) ==
    LET centerX == Floor(activeW + 1, 2)
        centerY == Floor(activeH + 1, 2)
    IN  Point(ix - centerX, iy - centerY)

\* internalToDisplay(ix, iy)
InternalToDisplay(ix, iy, activeW, activeH) ==
    LET centerX == Floor(activeW, 2)
        centerY == Floor(activeH, 2)
    IN  Point(ix - centerX, iy - centerY)

\* the store is not touched by a utility function
StoreIdle ==
    UNCHANGED <<width, height, gridData, metadata, history, historyIndex,
                rendered, importMeta, last, run>>

\* a caller converts the internal point p for display
ToDisplay(p) ==
    /\ calc' = [fn |-> "internalToDisplay", in |-> p,
                out |-> InternalToDisplay(p.x, p.y, width, height)]
    /\ StoreIdle

\* a caller converts the display point p to an internal one
ToInternal(p) ==
    /\ calc' = [fn |-> "displayToInternal", in |-> p,
                out |-> DisplayToInternal(p.x, p.y, width, height)]
    /\ StoreIdle

\* ---------------------------------------------------- exportUtils, rosExporter
\* shiftGridToStartOrigin that moves the start index to (0, 0)
ShiftGridToStartOriginZeroStart(data, w, h, md) ==
    IF md.start = {} THEN GridState(w, h, data, md)
    ELSE LET s == TheOne(md.start)
             res == md.resolution
         IN  GridState(w, h, data,
                 [md EXCEPT !.origin = [x |-> -(s.x * res), y |-> -(s.y * res),
                                        theta |-> md.origin.theta],
                            !.start = {Point(0, 0)}])

\* shiftGridToStartOrigin(data, width, height, metadata); resolution and
\* origin are counted in hundredths of a metre
ShiftGridToStartOrigin(data, w, h, md) ==
    IF md.start = {} THEN GridState(w, h, data, md)
    ELSE LET s == TheOne(md.start)
             res == md.resolution
         IN  GridState(w, h, data,
                 [md EXCEPT !.origin = [x |-> -(s.x * res), y |-> -(s.y * res),
                                        theta |-> md.origin.theta],
                            !.start = {Point(s.x, s.y)},
                            !.goal = IF md.goal # {}
                                     THEN {Point(TheOne(md.goal).x,
                                                 TheOne(md.goal).y)}
                                     ELSE {}])

\* start (0, 0) and the goal relative to the start, as the CSV and JSON
\* exports show them after a shift
RelativeMarkers(shifted, md) ==
    [shifted EXCEPT !.start = {Point(0, 0)},
                    !.goal = IF md.goal # {}
                             THEN {Point(TheOne(md.goal).x - TheOne(md.start).x,
                                         TheOne(md.goal).y - TheOne(md.start).y)}
                             ELSE {}]

\* generateCSV(data, width, height, metadata, shiftToStart): the comment
\* lines and the rows; a cell is {value}, or {} where the buffer ends early
GenerateCSV(data, w, h, md, shiftToStart) ==
    LET shift == shiftToStart /\ md.start # {}
        shifted == ShiftGridToStartOrigin(data, w, h, md)
        finalData == IF shift THEN shifted.data ELSE data
        finalMetadata == IF shift THEN RelativeMarkers(shifted.metadata, md)
                         ELSE md
    IN  [start |-> finalMetadata.start,
         goal |-> finalMetadata.goal,
         rows |-> [y \in 1..h |->
                     [x \in 1..w |->
                        LET i == (y - 1) * w + (x - 1)
                        IN  IF InBuffer(finalData, i) THEN {finalData[i + 1]}
                            ELSE {}]]]

\* generateJSON(state, shiftToStart)
GenerateJSON(state, shiftToStart) ==
    IF shiftToStart /\ state.metadata.start # {}
    THEN LET shifted == ShiftGridToStartOrigin(state.data, state.width,
                                               state.height, state.metadata)
         IN  GridState(shifted.width, shifted.height, shifted.data,
                       RelativeMarkers(shifted.metadata, state.metadata))
    ELSE state

\* generatePGM that writes UNKNOWN cells as white as FREE cells
PgmValueUnknownWhite(v) ==
    IF v = CELL_OCCUPIED THEN 0 ELSE 254

\* the grey level generatePGM writes for a cell
PgmValue(v) ==
    IF v = CELL_OCCUPIED THEN 0 ELSE IF v = CELL_FREE THEN 254 ELSE 205

\* generatePGM(data, width, height, metadata, shiftToStart)
GeneratePGM(data, w, h, md, shiftToStart) ==
    LET finalData == IF shiftToStart /\ md.start # {}
                     THEN ShiftGridToStartOrigin(data, w, h, md).data
                     ELSE data
    IN  [magic |-> "P2", width |-> w, height |-> h, maxval |-> 255,
         pixels |-> [i \in 1..Len(finalData) |-> PgmValue(finalData[i])]]

\* the 32-bit words generatePNG stores, as the bytes the image data holds
Rgba(r, g, b, a) == [r |-> r, g |-> g, b |-> b, a |-> a]
Transparent == Rgba(0, 0, 0, 0)
Black == Rgba(0, 0, 0, 255)
White == Rgba(255, 255, 255, 255)
Gray == Rgba(219, 213, 209, 255)
Green == Rgba(94, 197, 34, 255)
Red == Rgba(68, 68, 239, 255)

\* generatePNG: the pixel of a cell
PngPixel(val) ==
    IF val = CELL_OCCUPIED THEN Black ELSE IF val = CELL_FREE THEN White
    ELSE Gray

\* generatePNG: the index a marker is drawn at, if it lies in the image
MarkerIndex(marker, w, h) ==
    {p.y * w + p.x : p \in {q \in marker : /\ q.y * w + q.x >= 0
                                           /\ q.y * w + q.x < w * h}}

\* generatePNG(data, width, height, metadata, shiftToStart): the image data
\* the blob is encoded from
GeneratePNG(data, w, h, md, shiftToStart) ==
    LET shift == shiftToStart /\ md.start # {}
        shifted == ShiftGridToStartOrigin(data, w, h, md)
        finalData == IF shift THEN shifted.data ELSE data
        finalMetadata == IF shift THEN shifted.metadata ELSE md
        cells == [i \in 1..(w * h) |->
                     IF i <= Len(finalData) THEN PngPixel(finalData[i])
                     ELSE Transparent]
        withStart == [i \in 1..(w * h) |->
                         IF (i - 1) \in MarkerIndex(finalMetadata.start, w, h)
                         THEN Green ELSE cells[i]]
    IN  [width |-> w, height |-> h,
         pixels |-> [i \in 1..(w * h) |->
                        IF (i - 1) \in MarkerIndex(finalMetadata.goal, w, h)
                        THEN Red ELSE withStart[i]]]

\* generateYAML(metadata, imageFilename, shiftToStart)
GenerateYAML(md, shiftToStart) ==
    LET withStart == IF md.start = {} THEN [md EXCEPT !.start = {Point(0, 0)}]
                     ELSE md
        s == TheOne(withStart.start)
        finalMetadata ==
            IF shiftToStart /\ withStart.start # {}
            THEN ShiftGridToStartOrigin(<<>>, s.x + 1, s.y + 1,
                                        withStart).metadata
            ELSE withStart
    IN  [resolution |-> finalMetadata.resolution,
         origin |-> finalMetadata.origin]

\* the exports of a state: handleExportROS, handleExport
ExportOf(state, kind, shiftToStart) ==
    CASE kind = "yaml" -> GenerateYAML(state.metadata, shiftToStart)
      [] kind = "pgm" -> GeneratePGM(state.data, state.width, state.height,
                                     state.metadata, shiftToStart)
      [] kind = "csv" -> GenerateCSV(state.data, state.width, state.height,
                                     state.metadata, shiftToStart)
      [] kind = "json" -> GenerateJSON(state, shiftToStart)
      [] kind = "png" -> GeneratePNG(state.data, state.width, state.height,
                                     state.metadata, shiftToStart)

ExportKinds == {"yaml", "pgm", "csv", "json"}

\* GridImportSchema.parse applied to a parsed JSON text
Parse(json) ==
    /\ calc' = [fn |-> "GridImportSchema.parse", in |-> json,
                out |-> GridImportParse(json)]
    /\ StoreIdle

\* an export of the current state is taken
Export(kind, shiftToStart) ==
    /\ importMeta = {}
    /\ calc' = [fn |-> kind, shiftToStart |-> shiftToStart, in |-> Current,
                out |-> ExportOf(Current, kind, shiftToStart)]
    /\ StoreIdle

\* shiftGridToStartOrigin applied to the current state
Shift ==
    /\ importMeta = {}
    /\ calc' = [fn |-> "shiftGridToStartOrigin", in |-> Current,
                out |-> ShiftGridToStartOrigin(gridData, width, height,
                                               metadata)]
    /\ StoreIdle

\* ---------------------------------------------------------- generatorUtils
\* generateRandomMap that works on the caller's buffer unless it clears
GeneratorCallNoCopy(mode, clearFirst) ==
    [fn |-> "generateRandomMap", mode |-> mode, clearFirst |-> clearFirst,
     width |-> width, height |-> height,
     currentData |-> gridData,
     newData |-> IF clearFirst THEN Filled(width * height, CELL_FREE)
                 ELSE gridData,
     out |-> IF clearFirst THEN "newData" ELSE "currentData",
     returned |-> FALSE]

\* handleRunGenerator while generateRandomMap runs: calc holds the buffers of
\* the call (currentData is the caller's, newData and maze are new ones),
\* out names the buffer that is returned, and carved lists the cells the
\* maze loop has opened.
GeneratorCall(mode, clearFirst) ==
    [fn |-> "generateRandomMap", mode |-> mode, clearFirst |-> clearFirst,
     width |-> width, height |-> height,
     currentData |-> gridData,
     newData |-> IF clearFirst THEN Filled(width * height, CELL_FREE)
                 ELSE gridData,
     out |-> "newData",
     returned |-> FALSE]

Running == calc.fn = "generateRandomMap" /\ ~calc.returned

\* the generator goes on: the store is not touched
Continue(c) ==
    /\ calc' = c
    /\ StoreIdle

\* the buffer object the call returns
Returned(c) ==
    CASE c.out = "newData" -> c.newData
      [] c.out = "maze" -> c.maze
      [] c.out = "currentData" -> c.currentData

\* generateRandomMap returns and handleRunGenerator commits the result:
\* updateGrid(newData, width, height)
Return(c) ==
    /\ calc' = [c EXCEPT !.returned = TRUE]
    /\ UpdateGrid(Returned(c), width, height)
    /\ Render
    /\ Observe("updateGrid", <<width, height, Len(Returned(c))>>)
    /\ UNCHANGED <<importMeta, run>>

\* generateMaze: dirs
MazeDirs ==
    <<[dx |-> 0, dy |-> -2], [dx |-> 2, dy |-> 0],
      [dx |-> 0, dy |-> 2], [dx |-> -2, dy |-> 0]>>

\* generateMaze that looks for a neighbor on the stack, not in visited
MazeNeighborsOffStack(current, w, h, visited) ==
    SelectSeq(MazeDirs,
              LAMBDA d :
                  LET nx == current.x + d.dx
                      ny == current.y + d.dy
                  IN  /\ nx > 0 /\ nx < w - 1 /\ ny > 0 /\ ny < h - 1
                      /\ \A k \in 1..Len(calc.stack) :
                            calc.stack[k] # Point(nx, ny))

\* generateMaze: the neighbors of current that may still be opened
MazeNeighbors(current, w, h, visited) ==
    SelectSeq(MazeDirs,
              LAMBDA d :
                  LET nx == current.x + d.dx
                      ny == current.y + d.dy
                  IN  /\ nx > 0 /\ nx < w - 1 /\ ny > 0 /\ ny < h - 1
                      /\ Point(nx, ny) \notin visited)

\* the carving step that opens the rooms but not the walls between them
OpenCellRoomsOnly(maze, x, y, w, h) ==
    IF x >= 0 /\ x < w /\ y >= 0 /\ y < h /\ x % 2 = 1 /\ y % 2 = 1
    THEN WriteCell(maze, y * w + x, CELL_FREE)
    ELSE maze

\* maze[y * width + x] = CELL_FREE behind the guard of the carving step
OpenCell(maze, x, y, w, h) ==
    IF x >= 0 /\ x < w /\ y >= 0 /\ y < h
    THEN WriteCell(maze, y * w + x, CELL_FREE)
    ELSE maze

\* generateMaze that does not mark its start cell as visited
RunMazeStartUnvisited(clearFirst) ==
    /\ importMeta = {}
    /\ Len(history) = 1
    /\ calc.fn = "none"
    /\ LET c0 == [GeneratorCall("maze", clearFirst) EXCEPT !.out = "maze"]
           c1 == [maze |-> Filled(width * height, CELL_OCCUPIED),
                  stack |-> <<>>, visited |-> {}, carved |-> {}]
       IN  IF 1 >= width \/ 1 >= height
           THEN Return(c0 @@ c1)
           ELSE Continue(c0 @@
                    [c1 EXCEPT !.maze = WriteCell(@, width + 1, CELL_FREE),
                               !.stack = <<Point(1, 1)>>,
                               !.carved = {Point(1, 1)}])

\* generateMaze up to its loop, called by generateRandomMap in mode maze
RunMaze(clearFirst) ==
    /\ importMeta = {}
    /\ Len(history) = 1
    /\ calc.fn = "none"
    /\ LET c0 == [GeneratorCall("maze", clearFirst) EXCEPT !.out = "maze"]
           c1 == [maze |-> Filled(width * height, CELL_OCCUPIED),
                  stack |-> <<>>, visited |-> {}, carved |-> {}]
           startX == 1
           startY == 1
       IN  IF startX >= width \/ startY >= height
           THEN Return(c0 @@ c1)
           ELSE Continue(c0 @@
                    [c1 EXCEPT !.maze = WriteCell(@, startY * width + startX,
                                                  CELL_FREE),
                               !.stack = <<Point(startX, startY)>>,
                               !.visited = {Point(startX, startY)},
                               !.carved = {Point(startX, startY)}])

\* one iteration of generateMaze's loop; the neighbor is chosen at random
MazeLoop ==
    /\ Running
    /\ calc.mode = "maze"
    /\ LET current == calc.stack[Len(calc.stack)]
           w == calc.width
           h == calc.height
           neighbors == MazeNeighbors(current, w, h, calc.visited)
       IN  IF Len(neighbors) > 0
           THEN \E i \in 1..Len(neighbors) :
                   LET chosen == neighbors[i]
                       nx == current.x + chosen.dx
                       ny == current.y + chosen.dy
                       wx == current.x + chosen.dx \div 2
                       wy == current.y + chosen.dy \div 2
                   IN  Continue(
                         [calc EXCEPT
                            !.maze = OpenCell(OpenCell(@, wx, wy, w, h),
                                              nx, ny, w, h),
                            !.visited = @ \cup {Point(nx, ny)},
                            !.carved = @ \cup {Point(wx, wy), Point(nx, ny)},
                            !.stack = Append(@, Point(nx, ny))])
           ELSE LET c == [calc EXCEPT
                            !.stack = SubSeq(@, 1, Len(@) - 1)]
                IN  IF Len(c.stack) > 0 THEN Continue(c) ELSE Return(c)

\* generateBugtrap with a gap that also takes the row midY + halfAp
GenerateBugtrapWideGap(data, gw, gh, opts) ==
    LET cx == Floor(gw, 2)
        cy == Floor(gh, 2)
        w == opts.width
        l == opts.length
        t == opts.thickness
        x0 == cx - Floor(l, 2)
        y0 == cy - Floor(w, 2)
        yBot == y0 + w - t
        halfAp == Floor(opts.aperture, 2)
        InGap(realY) == /\ opts.aperture > 0
                        /\ realY >= cy - halfAp
                        /\ realY <= cy + halfAp
        Written(px, py) ==
            \/ px - x0 \in 0..(l - 1) /\ py - y0 \in 0..(t - 1)
            \/ px - x0 \in 0..(l - 1) /\ py - yBot \in 0..(t - 1)
            \/ px - x0 \in 0..(t - 1) /\ py - y0 \in 0..(w - 1) /\ ~InGap(py)
    IN  [i \in 1..Len(data) |->
            LET px == (i - 1) % gw
                py == (i - 1) \div gw
            IN  IF py < gh /\ Written(px, py) THEN CELL_OCCUPIED ELSE data[i]]

\* generateBugtrap(currentData, width, height, opts): the contents of data
\* when it returns.  The three loops write CELL_OCCUPIED to the cells
\* (px, py) of the top wall, the bottom wall and the back wall outside the
\* gap that pass the guard 0 <= px < width, 0 <= py < height.
GenerateBugtrap(data, gw, gh, opts) ==
    LET cx == Floor(gw, 2)
        cy == Floor(gh, 2)
        w == opts.width
        l == opts.length
        t == opts.thickness
        x0 == cx - Floor(l, 2)
        y0 == cy - Floor(w, 2)
        yBot == y0 + w - t
        midY == cy
        halfAp == Floor(opts.aperture, 2)
        InGap(realY) == /\ opts.aperture > 0
                        /\ realY >= midY - halfAp
                        /\ realY < midY + halfAp + (opts.aperture % 2)
        Written(px, py) ==
            \/ px - x0 \in 0..(l - 1) /\ py - y0 \in 0..(t - 1)
            \/ px - x0 \in 0..(l - 1) /\ py - yBot \in 0..(t - 1)
            \/ px - x0 \in 0..(t - 1) /\ py - y0 \in 0..(w - 1) /\ ~InGap(py)
    IN  [i \in 1..Len(data) |->
            LET px == (i - 1) % gw
                py == (i - 1) \div gw
            IN  IF py < gh /\ Written(px, py) THEN CELL_OCCUPIED ELSE data[i]]

\* generateRandomMap in mode bugtrap: generateBugtrap works on newData in
\* place and returns it; before keeps what newData held when it was made
RunBugtrap(clearFirst, opts) ==
    /\ importMeta = {}
    /\ Len(history) = 1
    /\ calc.fn = "none"
    /\ LET c0 == GeneratorCall("bugtrap", clearFirst)
       IN  Return([c0 EXCEPT !.newData = GenerateBugtrap(@, width, height,
                                                         opts)]
                      @@ [before |-> c0.newData, opts |-> opts])

\* the cells of the grid among the points of a shape
InGridPoints(points, w, h) ==
    {p \in points : p.x >= 0 /\ p.x < w /\ p.y >= 0 /\ p.y < h}

\* generateShape(type, w, h, min, max) for the random centre (cx, cy) and the
\* random sizes size and size2: the set of its points
GenerateShape(type, cx, cy, size, size2) ==
    CASE type \in {"rect", "square"} ->
            LET sw == size
                sh == IF type = "square" THEN size ELSE size2
                x0 == cx - Floor(sw, 2)
                y0 == cy - Floor(sh, 2)
            IN  {Point(x0 + x, y0 + y) : x \in 0..(sw - 1), y \in 0..(sh - 1)}
      [] type = "circle" ->
            LET r == Floor(size, 2)
            IN  {Point(cx + x, cy + y) :
                    <<x, y>> \in {q \in ((-r)..r) \X ((-r)..r) :
                                     q[1] * q[1] + q[2] * q[2] <= r * r}}
      [] type = "triangle" ->
            LET hTri == size
                y0 == cy - Floor(hTri, 2)
                widthAtY(y) == Floor(y * size, hTri)
            IN  UNION {{Point(cx + x, y0 + y) :
                           x \in (-widthAtY(y))..widthAtY(y)} :
                       y \in 0..(hTri - 1)}
      [] type = "cross" ->
            LET thickness == Max(1, Floor(size, 3))
                len == size
                x0 == cx - Floor(len, 2)
                y0 == cy - Floor(thickness, 2)
                x1 == cx - Floor(thickness, 2)
                y1 == cy - Floor(len, 2)
            IN  {Point(x0 + x, y0 + y) :
                    x \in 0..(len - 1), y \in 0..(thickness - 1)}
                \cup {Point(x1 + x, y1 + y) :
                         x \in 0..(thickness - 1), y \in 0..(len - 1)}
      [] type = "room" ->
            LET sw == size
                sh == size2
                x0 == cx - Floor(sw, 2)
                y0 == cy - Floor(sh, 2)
            IN  {Point(x0 + x, y0 + y) :
                    <<x, y>> \in {q \in (0..(sw - 1)) \X (0..(sh - 1)) :
                                     \/ q[1] = 0 \/ q[1] = sw - 1
                                     \/ q[2] = 0 \/ q[2] = sh - 1}}

\* isValid that looks at the stamped cells only, not around them
IsValidNoSpacing(points, data, w, h, options) ==
    \/ options.allowOverlap
    \/ \A p \in InGridPoints(points, w, h) :
          ~(/\ InBuffer(data, p.y * w + p.x)
            /\ data[p.y * w + p.x + 1] = CELL_OCCUPIED)

\* generateRandomMap: isValid(points) on the buffer data
IsValid(points, data, w, h, options) ==
    \/ options.allowOverlap
    \/ \A p \in points :
          (p.x >= 0 /\ p.x < w /\ p.y >= 0 /\ p.y < h) =>
              \A dx \in (-options.spacing)..options.spacing,
                 dy \in (-options.spacing)..options.spacing :
                  LET nx == p.x + dx
                      ny == p.y + dy
                  IN  (nx >= 0 /\ nx < w /\ ny >= 0 /\ ny < h) =>
                          ~(/\ InBuffer(data, ny * w + nx)
                            /\ data[ny * w + nx + 1] = CELL_OCCUPIED)

\* the stamping that starts from an empty buffer for every shape
PlaceShapeAlone(points, data, w, h) ==
    [i \in 1..Len(data) |->
        IF /\ (i - 1) \div w < h
           /\ Point((i - 1) % w, (i - 1) \div w) \in points
        THEN CELL_OCCUPIED ELSE CELL_FREE]

\* generateRandomMap: the points of a shape written to the buffer data
PlaceShape(points, data, w, h) ==
    [i \in 1..Len(data) |->
        IF /\ (i - 1) \div w < h
           /\ Point((i - 1) % w, (i - 1) \div w) \in points
        THEN CELL_OCCUPIED ELSE data[i]]

\* the shape loop that allows one attempt too many
ShapesGoOnOneMore(c) ==
    /\ c.placedCount < c.options.count
    /\ c.attempts <= c.options.count * AttemptsPerShape

\* the shape loop runs on while shapes are missing and attempts are left
ShapesGoOn(c) ==
    /\ c.placedCount < c.options.count
    /\ c.attempts < c.options.count * AttemptsPerShape

ShapesStep(c) == IF ShapesGoOn(c) THEN Continue(c) ELSE Return(c)

\* generateRandomMap in mode shapes, up to its loop.  before keeps what the
\* buffer held when the loop began; stamps and priors list, for each accepted
\* placement, its cells in the grid and the buffer it was checked against.
RunShapes(options) ==
    /\ importMeta = {}
    /\ Len(history) = 1
    /\ calc.fn = "none"
    /\ LET c0 == GeneratorCall("shapes", options.clearFirst)
       IN  ShapesStep(c0 @@ [options |-> options, attempts |-> 0,
                             placedCount |-> 0, before |-> c0[c0.out],
                             stamps |-> <<>>, priors |-> <<>>])

\* one attempt of the shape loop: a random shape is made and, where valid,
\* written to the buffer the call works on
ShapesLoop ==
    /\ Running
    /\ calc.mode = "shapes"
    /\ \E k \in 1..Len(calc.options.shapes),
          cx \in 0..(calc.width - 1), cy \in 0..(calc.height - 1),
          size \in calc.options.minSize..calc.options.maxSize,
          size2 \in calc.options.minSize..calc.options.maxSize :
           LET w == calc.width
               h == calc.height
               points == GenerateShape(calc.options.shapes[k], cx, cy,
                                       size, size2)
               data == calc[calc.out]
           IN  IF IsValid(points, data, w, h, calc.options)
               THEN ShapesStep([calc EXCEPT
                                  ![calc.out] = PlaceShape(points, data, w, h),
                                  !.attempts = @ + 1,
                                  !.placedCount = @ + 1,
                                  !.stamps =
                                      Append(@, InGridPoints(points, w, h)),
                                  !.priors = Append(@, data)])
               ELSE ShapesStep([calc EXCEPT !.attempts = @ + 1])

\* no utility function applied yet
NoCalc == [fn |-> "none"]

\* ---------------------------------------------------------- specifications
\* useGrid({initialWidth, initialHeight, initialResolution}) after its first
\* render, holding the buffer data: one history entry, nothing called yet
InitWith(initialWidth, initialHeight, data) ==
    /\ width = initialWidth
    /\ height = initialHeight
    /\ metadata = InitialMetadata
    /\ gridData = data
    /\ history = <<GridState(width, height, gridData, metadata)>>
    /\ historyIndex = 0
    /\ rendered = GridState(width, height, gridData, metadata)
    /\ importMeta = {}
    /\ heap = [cells |-> <<data>>, grid |-> 1, rendered |-> 1,
               history |-> <<1>>, gen |-> 0, ops |-> 0]
    /\ last = NoCall
    /\ run = RunInit
    /\ calc = NoCalc

\* the store as constructed: all cells FREE
InitStore(initialWidth, initialHeight) ==
    InitWith(initialWidth, initialHeight,
             Filled(initialWidth * initialHeight, CELL_FREE))

Dims == 1..MaxDim
Cells(w, h) == {Point(x, y) : x \in 0..(w - 1), y \in 0..(h - 1)}

\* the cells a marker is put on: the two corners a resize can cut off
MarkerCells(w, h) == {Point(0, 0), Point(w - 1, h - 1)}

\* handleResizeUpWindow: the cells dX (dY) the left (top) handle was dragged by
DragSteps == {-1, 1}

\* the files the import is tried on
CsvFiles ==
    {[width |-> MaxDim, height |-> 1, data |-> Filled(MaxDim, CELL_UNKNOWN),
      start |-> s, goal |-> {}] : s \in {{}, {Point(-1, 0)}}}

JsonFiles ==
    {[width |-> 1, height |-> MaxDim, data |-> Filled(n, CELL_OCCUPIED),
      resolution |-> InitialResolution + 5,
      origin |-> [x |-> 0, y |-> 0, theta |-> 0]] : n \in {MaxDim, MaxDim + 1}}

\* the history may still grow
CanGrow == historyIndex + 2 <= MaxEntries

\* Spec: every store call, on grids of sides 1..MaxDim
Init == InitStore(MaxDim, MaxDim)

Next ==
    /\ UNCHANGED heap
    /\ /\ UNCHANGED <<run, calc>>
       /\ \/ CanGrow /\ \E p \in Cells(width, height),
                           v \in {CELL_OCCUPIED, CELL_FREE} : Draw(p, v)
          \/ CanGrow /\ ClearGrid
          \/ CanGrow /\ \E p \in MarkerCells(width, height) : SetStart(p.x, p.y)
          \/ CanGrow /\ \E p \in MarkerCells(width, height) : SetGoal(p.x, p.y)
          \/ CanGrow /\ ClearStart
          \/ CanGrow /\ ClearGoal
          \/ CanGrow /\ \E nw \in Dims : ResizeGrid(nw, height, 0, 0)
          \/ CanGrow /\ \E nh \in Dims : ResizeGrid(width, nh, 0, 0)
          \/ CanGrow /\ \E dX \in DragSteps :
                           /\ width - dX <= MaxDim
                           /\ ResizeGrid(Max(1, width - dX), height, -dX, 0)
          \/ CanGrow /\ \E dY \in DragSteps :
                           /\ height - dY <= MaxDim
                           /\ ResizeGrid(width, Max(1, height - dY), 0, -dY)
          \/ CanGrow /\ \E f \in CsvFiles : ImportCSV(f)
          \/ CanGrow /\ \E f \in JsonFiles : ImportJSON(f)
          \/ ImportUpdateMetadata
          \/ Undo
          \/ Redo

Spec == Init /\ [][Next]_vars

\* SpecLong: a LongWidth x 1 strip painted from the left, one cell per stroke,
\* so that every commit is a new state and the history fills up
LeftmostFree ==
    {x \in 0..(width - 1) :
        /\ gridData[x + 1] = CELL_FREE
        /\ \A x2 \in 0..(x - 1) : gridData[x2 + 1] # CELL_FREE}

InitLong == InitStore(LongWidth, 1)

NextLong ==
    /\ UNCHANGED heap
    /\ /\ UNCHANGED calc
       /\ \/ (\E x \in LeftmostFree : Draw(Point(x, 0), CELL_OCCUPIED))
                /\ RunCommit
          \/ Undo /\ RunUndo
          \/ Redo /\ RunRedo

SpecLong == InitLong /\ [][NextLong]_vars

\* SpecRuns: strokes, undo and redo around an import
CanGrowRuns == historyIndex + 2 <= MaxEntries + 1

NextRuns ==
    /\ UNCHANGED heap
    /\ /\ UNCHANGED calc
       /\ \/ /\ CanGrowRuns
             /\ \E p \in Cells(width, height),
                   v \in {CELL_OCCUPIED, CELL_FREE} : Draw(p, v)
             /\ RunCommit
          \/ CanGrowRuns /\ (\E f \in CsvFiles : ImportCSV(f)) /\ RunOther
          \/ ImportUpdateMetadata /\ RunOther
          \/ Undo /\ RunUndo
          \/ Redo /\ RunRedo

SpecRuns == Init /\ [][NextRuns]_vars

\* SpecResize: one resize of a grid of sides 1..SrcMax that is all OCCUPIED
\* or holds one OCCUPIED cell
SourceBuffers(w, h) ==
    {Filled(w * h, CELL_OCCUPIED)}
        \cup {[Filled(w * h, CELL_FREE) EXCEPT ![i] = CELL_OCCUPIED] :
                 i \in 1..(w * h)}

InitResize ==
    \E w \in 1..SrcMax, h \in 1..SrcMax :
        \E d \in SourceBuffers(w, h) : InitWith(w, h, d)

NextResize ==
    /\ UNCHANGED heap
    /\ /\ Len(history) = 1
       /\ UNCHANGED <<run, calc>>
       /\ \E nw \in 1..DstMax, nh \in 1..DstMax,
             ox \in (-OffMax)..OffMax, oy \in (-OffMax)..OffMax :
              ResizeGrid(nw, nh, ox, oy)

SpecResize == InitResize /\ [][NextResize]_vars

\* SpecCoords: the two conversions applied to integer points, on grids of
\* sides 1..CoordMax
CoordPoints == {Point(x, y) : x \in (-PtMax)..PtMax, y \in (-PtMax)..PtMax}

InitCoords == \E w \in 1..CoordMax, h \in 1..CoordMax : InitStore(w, h)

NextCoords ==
    /\ UNCHANGED heap
    /\ \/ \E p \in CoordPoints : ToDisplay(p)
       \/ \E p \in CoordPoints : ToInternal(p)

SpecCoords == InitCoords /\ [][NextCoords]_vars

\* SpecExport: markers set and cleared, a JSON file with a world origin
\* imported, and the exports taken of the states so reached
OriginFiles ==
    {[width |-> MaxDim, height |-> MaxDim,
      data |-> Filled(MaxDim * MaxDim, CELL_OCCUPIED),
      resolution |-> InitialResolution + 5,
      origin |-> [x |-> 150, y |-> -200, theta |-> 1]]}

NextExport ==
    /\ UNCHANGED heap
    /\ \/ /\ UNCHANGED <<run, calc>>
          /\ \/ CanGrowRuns /\ \E p \in MarkerCells(width, height) :
                                  SetStart(p.x, p.y)
             \/ CanGrowRuns /\ \E p \in MarkerCells(width, height) :
                                  SetGoal(p.x, p.y)
             \/ CanGrowRuns /\ ClearStart
             \/ CanGrowRuns /\ \E f \in OriginFiles : ImportJSON(f)
             \/ ImportUpdateMetadata
       \/ \E kind \in ExportKinds, b \in BOOLEAN : Export(kind, b)
       \/ Shift

SpecExport == Init /\ [][NextExport]_vars

\* SpecMaze: the maze generator run once on a grid of sides 1..MazeMax that
\* is all FREE or all OCCUPIED
InitMaze ==
    \E w \in 1..MazeMax, h \in 1..MazeMax,
       v \in {CELL_FREE, CELL_OCCUPIED} : InitWith(w, h, Filled(w * h, v))

NextMaze ==
    /\ UNCHANGED heap
    /\ \/ \E clearFirst \in BOOLEAN : RunMaze(clearFirst)
       \/ MazeLoop

SpecMaze == InitMaze /\ [][NextMaze]_vars

\* SpecMazeFair: generateMaze runs synchronously, so its loop goes on for as
\* long as its condition holds
SpecMazeFair == SpecMaze /\ WF_vars(MazeLoop /\ UNCHANGED heap)

\* SpecBugtrap: the bugtrap generator run once, on grids of sides
\* 1..BtGridMax that are all FREE or all OCCUPIED and on the 64x64 grid,
\* with small traps and the trap of 20 x 30, thickness 2, aperture 6
DemoTrap ==
    [grid |-> 64, width |-> 20, length |-> 30, thickness |-> 2, aperture |-> 6]

TrapOf(w, l, t, a) ==
    [width |-> w, length |-> l, thickness |-> t, aperture |-> a]

BugtrapOptions ==
    {TrapOf(w, l, t, a) : w \in BtSideMin..BtSideMax, l \in BtSideMin..BtSideMax,
                          t \in 1..BtThickMax, a \in 0..BtApMax}
        \cup {TrapOf(DemoTrap.width, DemoTrap.length, DemoTrap.thickness,
                     DemoTrap.aperture)}

InitBugtrap ==
    \/ \E w \in 1..BtGridMax, h \in 1..BtGridMax,
          v \in {CELL_FREE, CELL_OCCUPIED} : InitWith(w, h, Filled(w * h, v))
    \/ InitStore(DemoTrap.grid, DemoTrap.grid)

NextBugtrap ==
    /\ UNCHANGED heap
    /\ \E clearFirst \in BOOLEAN, opts \in BugtrapOptions :
           RunBugtrap(clearFirst, opts)

SpecBugtrap == InitBugtrap /\ [][NextBugtrap]_vars

\* SpecGenerators: the shape generator, asked for one shape, and the maze
\* generator run once, on grids of sides 1..GenGridMax that are all FREE or
\* all OCCUPIED
ShapeOptions ==
    {[shapes |-> <<"rect", "square", "circle", "triangle", "cross", "room">>,
      count |-> 1, minSize |-> 1, maxSize |-> GenSizeMax, spacing |-> 1,
      allowOverlap |-> o, clearFirst |-> c] :
        o \in BOOLEAN, c \in BOOLEAN}

InitGenerators ==
    \E w \in 1..GenGridMax, h \in 1..GenGridMax,
       v \in {CELL_FREE, CELL_OCCUPIED} : InitWith(w, h, Filled(w * h, v))

NextGenerators ==
    /\ UNCHANGED heap
    /\ \/ \E options \in ShapeOptions : RunShapes(options)
       \/ ShapesLoop
       \/ \E clearFirst \in BOOLEAN : RunMaze(clearFirst)
       \/ MazeLoop

SpecGenerators == InitGenerators /\ [][NextGenerators]_vars

\* handleResizeUpWindow: the handle node of a grid is let go dX cells to the
\* right of and dY cells below the place it was taken at
HandleResizeUp(node, dX, dY) ==
    LET newW == CASE node = "right" -> Max(1, width + dX)
                  [] node = "left" -> Max(1, width - dX)
                  [] OTHER -> width
        newH == CASE node = "bottom" -> Max(1, height + dY)
                  [] node = "top" -> Max(1, height - dY)
                  [] OTHER -> height
        offX == IF node = "left" THEN -dX ELSE 0
        offY == IF node = "top" THEN -dY ELSE 0
    IN  /\ calc' = [fn |-> "handleResizeUpWindow", node |-> node,
                    dX |-> dX, dY |-> dY,
                    resized |-> \/ newW # rendered.width
                                \/ newH # rendered.height
                                \/ offX # 0 \/ offY # 0]
        /\ UNCHANGED run
        /\ IF calc'.resized
           THEN ResizeGrid(newW, newH, offX, offY)
           ELSE StoreIdle

\* SpecDrag: one drag of a resize handle of a grid of sides 1..SrcMax that is
\* all OCCUPIED or holds one OCCUPIED cell
ResizeNodes == {"left", "right", "top", "bottom"}

NextDrag ==
    /\ UNCHANGED heap
    /\ Len(history) = 1
    /\ calc.fn = "none"
    /\ \E node \in ResizeNodes, dX \in (-DragMax)..DragMax,
          dY \in (-DragMax)..DragMax : HandleResizeUp(node, dX, dY)

SpecDrag == InitResize /\ [][NextDrag]_vars

\* ------------------------------------------------------ buffer objects
\* heap.cells lists the Int8Array objects made so far; heap.grid is the one
\* the gridData state refers to, heap.rendered the one the callbacks of the
\* last render closed over, heap.history[i] the one entry i of the history
\* refers to, and heap.gen the one a running generator writes to.

\* new Int8Array(...): the object made next
FreshRef == Len(heap.cells) + 1

\* the object ref holds content from now on
Store(h, ref, content) ==
    [h EXCEPT !.cells = IF ref > Len(@) THEN Append(@, content)
                        ELSE [@ EXCEPT ![ref] = content]]

\* saveToHistory of an entry whose data is the object ref
HeapPush(ref) ==
    LET newHistory == Append(SubSeq(heap.history, 1, historyIndex + 1), ref)
    IN  IF Len(newHistory) > MAX_HISTORY THEN Tail(newHistory) ELSE newHistory

\* updateGrid(newData, ...) and the render that follows: the state and the
\* new entry refer to the object that was passed
HeapUpdateGrid(h, ref) ==
    [h EXCEPT !.grid = ref, !.rendered = ref, !.history = HeapPush(ref),
              !.ops = @ + 1]

\* setStart, setGoal, clearStart, clearGoal: the new entry refers to the
\* gridData of the last render
HeapCommitMetadata ==
    heap' = [heap EXCEPT !.history = HeapPush(heap.rendered), !.ops = @ + 1]

\* undo, redo: setGridData(state.data)
HeapRestore ==
    heap' = [heap EXCEPT !.grid = heap.history[historyIndex' + 1],
                         !.rendered = heap.history[historyIndex' + 1]]

\* modifyGrid that writes to the buffer it was given
ModifyGridBufferInPlace == heap.rendered

\* modifyGrid: const newData = new Int8Array(data)
ModifyGridBuffer == FreshRef

\* modifyGrid writes to its buffer and hands it to updateGrid
HeapModifyGrid ==
    heap' = HeapUpdateGrid(Store(heap, ModifyGridBuffer, gridData'),
                           ModifyGridBuffer)

\* clearGrid, resizeGrid: new Int8Array(...).fill(CELL_FREE), written to and
\* handed to updateGrid
HeapNewGrid ==
    heap' = HeapUpdateGrid(Store(heap, FreshRef, gridData'), FreshRef)

\* generateRandomMap: the buffer the call writes to is a new object, unless
\* the call works on currentData itself; when the call returns,
\* handleRunGenerator hands that object to updateGrid
HeapGenerator ==
    LET ref == IF calc.fn # "generateRandomMap"
               THEN IF calc'.out = "currentData" THEN heap.rendered
                    ELSE FreshRef
               ELSE heap.gen
        written == [Store(heap, ref, Returned(calc')) EXCEPT !.gen = ref]
    IN  heap' = IF calc'.returned THEN HeapUpdateGrid(written, ref)
                ELSE written

\* SpecHeap: every call that makes, writes or hands on a buffer object, on a
\* grid of HeapSide by HeapSide cells; a generator may run first
HeapOptions ==
    {[shapes |-> <<"square">>, count |-> 1, minSize |-> 1, maxSize |-> 1,
      spacing |-> 0, allowOverlap |-> FALSE, clearFirst |-> c] :
        c \in BOOLEAN}

HeapCanGrow == ~Running /\ heap.ops < HeapOps

NextHeap ==
    \/ /\ HeapCanGrow
       /\ UNCHANGED <<run, calc>>
       /\ \/ (\E p \in MarkerCells(width, height),
                 v \in {CELL_OCCUPIED, CELL_FREE} : Draw(p, v))
                /\ HeapModifyGrid
          \/ ClearGrid /\ HeapNewGrid
          \/ (\E nw \in {HeapSide - 1, HeapSide} : ResizeGrid(nw, height, 0, 0))
                /\ HeapNewGrid
          \/ SetStart(0, 0) /\ HeapCommitMetadata
          \/ SetGoal(0, 0) /\ HeapCommitMetadata
          \/ ClearStart /\ HeapCommitMetadata
          \/ ClearGoal /\ HeapCommitMetadata
    \/ /\ ~Running
       /\ UNCHANGED <<run, calc>>
       /\ \/ Undo /\ HeapRestore
          \/ Redo /\ HeapRestore
    \/ /\ \/ \E options \in HeapOptions : RunShapes(options)
          \/ ShapesLoop
          \/ \E clearFirst \in BOOLEAN : RunMaze(clearFirst)
          \/ MazeLoop
          \/ RunBugtrap(FALSE, TrapOf(BtSideMin, BtSideMin, 2, 0))
       /\ HeapGenerator

SpecHeap == InitStore(HeapSide, HeapSide) /\ [][NextHeap]_vars

\* SpecEncode: the PGM and PNG encoders applied to grids of one or two rows
\* whose cells are UNKNOWN, FREE, OCCUPIED or a value in between, with and
\* without markers
CellValues == {CELL_UNKNOWN, CELL_FREE, CELL_OCCUPIED \div 2, CELL_OCCUPIED}

EncoderKinds == {"pgm", "png"}

InitEncode ==
    \E w \in 1..EncCells, h \in {1, 2} :
        /\ w * h <= EncCells
        /\ \E d \in [1..(w * h) -> CellValues] : InitWith(w, h, d)

NextEncode ==
    /\ UNCHANGED heap
    /\ \/ /\ calc.fn = "none"
          /\ UNCHANGED <<run, calc>>
          /\ \/ Len(history) = 1 /\ \E p \in MarkerCells(width, height) :
                                       SetStart(p.x, p.y)
             \/ Len(history) <= 2 /\ \E p \in MarkerCells(width, height) :
                                        SetGoal(p.x, p.y)
       \/ calc.fn = "none"
             /\ \E kind \in EncoderKinds, b \in BOOLEAN : Export(kind, b)

SpecEncode == InitEncode /\ [][NextEncode]_vars

\* SpecParse: GridImportSchema.parse applied to JSON texts: sides that are
\* negative, zero, fractions, small, at the cap and past it; resolutions that
\* are negative, zero and positive; metadata with and without the start
\* marker generateJSON writes
JsonSides == {-2, 0, 1, 2, 3, 4, 2 * MaxSide, 2 * MaxSide + 1, 2 * MaxSide + 2}

JsonMetadata ==
    LET base(r) == [resolution |-> r, origin |-> [x |-> 0, y |-> 0, theta |-> 0]]
    IN  {base(r) : r \in {-5, 0, 5}}
            \cup {base(r) @@ [start |-> Point(0, 0)] : r \in {-5, 0, 5}}

JsonObjects ==
    {[width |-> w, height |-> h, data |-> <<CELL_FREE, CELL_OCCUPIED>>,
      metadata |-> md] :
        w \in JsonSides, h \in {0, 2, 2 * MaxSide + 2}, md \in JsonMetadata}

NextParse ==
    /\ UNCHANGED heap
    /\ \E json \in JsonObjects : Parse(json)

SpecParse == Init /\ [][NextParse]_vars

\* SpecScatter: two shapes asked for on grids of 1..ScWidthMax by
\* 1..ScHeightMax cells that are all FREE or hold one OCCUPIED cell in a
\* corner, followed through the first ScAttempts attempts; and the bugtrap
\* generator on the same grids
ScatterOptions ==
    {[shapes |-> <<"square", "cross">>,
      count |-> 2, minSize |-> 1, maxSize |-> ScSizeMax, spacing |-> sp,
      allowOverlap |-> o, clearFirst |-> c] :
        sp \in {0, 1}, o \in BOOLEAN, c \in BOOLEAN}

ScatterBuffers(w, h) ==
    {Filled(w * h, CELL_FREE)}
        \cup {[Filled(w * h, CELL_FREE) EXCEPT ![i] = CELL_OCCUPIED] :
                 i \in {1, w * h}}

InitScatter ==
    \E w \in 1..ScWidthMax, h \in 1..ScHeightMax :
        \E d \in ScatterBuffers(w, h) : InitWith(w, h, d)

NextScatter ==
    /\ UNCHANGED heap
    /\ \/ \E options \in ScatterOptions : RunShapes(options)
       \/ Running /\ calc.mode = "shapes" /\ calc.attempts < ScAttempts
             /\ ShapesLoop
       \/ \E clearFirst \in BOOLEAN, opts \in BugtrapOptions :
             RunBugtrap(clearFirst, opts)

SpecScatter == InitScatter /\ [][NextScatter]_vars

\* ------------------------------------------------------------------ claims
\* C1: undo/redo symmetry.  After N >= 1 commits from a state S0, N calls of
\* undo() leave width, height, gridData and metadata equal to S0, and N
\* calls of redo() after them restore the state that held after the N-th
\* commit.
UndoRedoSymmetry ==
    /\ (run.phase = "undo" /\ run.k = run.n) => Current = run.s0
    /\ (run.phase = "redo" /\ run.r = run.n) => Current = run.sN

\* C2: history cap.  The history never holds more than MAX_HISTORY entries;
\* a push onto a full history drops its oldest entry and appends the new one;
\* and after 25 commits in a row on a fresh store MAX_HISTORY entries are
\* left, the cursor on the last of them, so that repeated undo() reaches
\* exactly MAX_HISTORY - 1 more.
HistoryCap ==
    /\ [](/\ Len(history) <= MAX_HISTORY
          /\ (run.fresh /\ run.n = 25 /\ run.phase \in {"commit", "undo"})
                => /\ Len(history) = MAX_HISTORY
                   /\ historyIndex = MAX_HISTORY - 1 - Min(run.k, MAX_HISTORY - 1))
    /\ [][(/\ last'.op \in MutatingOps
           /\ Len(history) = MAX_HISTORY
           /\ historyIndex = MAX_HISTORY - 1)
            => /\ Len(history') = MAX_HISTORY
               /\ SubSeq(history', 1, MAX_HISTORY - 1) = Tail(history)
               /\ history'[MAX_HISTORY] = Current']_vars

\* C2 witness: the 25th commit in a row on a fresh store has been made
HistoryCapWitness ==
    /\ run.fresh /\ run.phase = "commit" /\ run.n = 25
    /\ Len(history) = MAX_HISTORY

\* the length of the history after a push at the cursor
PushedLen == Min(historyIndex + 2, MAX_HISTORY)

\* the old entries a push keeps are those up to the cursor, in order, the
\* oldest one dropped when the history was full
KeepsUpToCursor ==
    LET kept == Len(history') - 1
        from == historyIndex + 1 - kept
    IN  \A i \in 1..kept : history'[i] = history[from + i]

\* C3: linear history.  A mutating call discards every entry after the
\* cursor, its entry becomes the last entry and the cursor, and redo() stays
\* unavailable until the next undo().
LinearHistory ==
    /\ [][last'.op \in MutatingOps
            => /\ Len(history') = PushedLen
               /\ KeepsUpToCursor
               /\ historyIndex' = Len(history') - 1
               /\ ~canRedo']_vars
    /\ [][(~canRedo /\ last'.op # "undo") => ~canRedo']_vars

\* C3 witness: a mutating call made after two undos, the redo branch gone
LinearHistoryWitness ==
    /\ last.op \in MutatingOps
    /\ last.cut = 2
    /\ Len(history) = 2
    /\ ~canRedo

\* C4: history exhaustion.  undo() at index 0 and redo() at the last entry
\* change nothing; canUndo / canRedo are false there and true exactly where
\* the call moves the cursor.
HistoryExhaustion ==
    /\ [](historyIndex >= 0 /\ historyIndex < Len(history))
    /\ [][/\ (last'.op = "undo" /\ historyIndex = 0)
                => ~canUndo /\ UNCHANGED <<storeVars, history, historyIndex>>
          /\ (last'.op = "redo" /\ historyIndex = Len(history) - 1)
                => ~canRedo /\ UNCHANGED <<storeVars, history, historyIndex>>
          /\ (last'.op = "undo" /\ historyIndex > 0)
                => canUndo /\ historyIndex' = historyIndex - 1
          /\ (last'.op = "redo" /\ historyIndex < Len(history) - 1)
                => canRedo /\ historyIndex' = historyIndex + 1]_vars

\* C4 witness: undo() was called with the cursor on the first of several entries
HistoryExhaustionWitness ==
    /\ last.op = "undo"
    /\ last.atEnd
    /\ historyIndex = 0
    /\ Len(history) > 1

\* C5: every mutating call adds exactly one entry, which becomes the cursor
\* entry, also when it repeats the call before it; undo() and redo() leave
\* the history list as it is.
OneEntryPerCall ==
    [][/\ last'.op \in MutatingOps
            => /\ Len(history') = PushedLen
               /\ historyIndex' = Len(history') - 1
               /\ history'[Len(history')].metadata = metadata'
       /\ (last'.op \in MutatingOps /\ last'.repeat /\ Len(history) < MAX_HISTORY)
            => Len(history') = Len(history) + 1
       /\ last'.op \in {"undo", "redo"} => history' = history]_vars

\* C5 witness: setStart(x, y) called twice in a row, two equal entries kept
OneEntryPerCallWitness ==
    /\ last.op = "setStart"
    /\ last.repeat
    /\ historyIndex = 2
    /\ history[3] = history[2]

\* C6: buffer-size invariant.  The store's buffer and the buffer of every
\* history entry has length width * height.
BufferSizeInvariant ==
    /\ WellFormed(gridData, width, height)
    /\ \A i \in 1..Len(history) :
          WellFormed(history[i].data, history[i].width, history[i].height)

\* C7: updateGrid called with a buffer whose length is not newWidth *
\* newHeight changes neither the store's state nor the history.
CommitRejectsIllFormed ==
    [][(/\ last'.op = "updateGrid"
        /\ last'.args[3] # last'.args[1] * last'.args[2])
         => UNCHANGED <<storeVars, history, historyIndex>>]_vars

\* C8: marker bounds invariant.  start and goal, when present, lie inside
\* the current width and height.
InGrid(p) == p.x >= 0 /\ p.x < width /\ p.y >= 0 /\ p.y < height

MarkersInBounds ==
    \A p \in metadata.start \cup metadata.goal : InGrid(p)

\* C9: resize is a clip-and-paste.  Every cell (nx, ny) of the new buffer
\* holds the old cell (nx - offsetX, ny - offsetY) when that lies in the old
\* grid and FREE otherwise; resize(width, height, 0, 0) keeps the buffer; an
\* all-OCCUPIED 3x3 grid resized to 5x5 at offset (1, 1) is OCCUPIED exactly
\* on rows and columns 1..3.
ResizeClipAndPaste ==
    last.op = "resize" =>
        LET old == history[historyIndex]
            nw == last.args[1]
            nh == last.args[2]
            ox == last.args[3]
            oy == last.args[4]
            new(nx, ny) == gridData[ny * nw + nx + 1]
        IN  /\ width = nw /\ height = nh /\ Len(gridData) = nw * nh
            /\ \A nx \in 0..(nw - 1), ny \in 0..(nh - 1) :
                  new(nx, ny) =
                      IF /\ nx - ox >= 0 /\ nx - ox < old.width
                         /\ ny - oy >= 0 /\ ny - oy < old.height
                      THEN old.data[(ny - oy) * old.width + (nx - ox) + 1]
                      ELSE CELL_FREE
            /\ (nw = old.width /\ nh = old.height /\ ox = 0 /\ oy = 0)
                  => gridData = old.data
            /\ (/\ old.width = 3 /\ old.height = 3
                /\ old.data = Filled(9, CELL_OCCUPIED)
                /\ last.args = <<5, 5, 1, 1>>)
                  => \A nx \in 0..4, ny \in 0..4 :
                        new(nx, ny) = IF nx \in 1..3 /\ ny \in 1..3
                                      THEN CELL_OCCUPIED ELSE CELL_FREE

\* C9 witness: the all-OCCUPIED 3x3 grid was resized to 5x5 at offset (1, 1)
ResizeClipAndPasteWitness ==
    /\ last.op = "resize"
    /\ last.args = <<5, 5, 1, 1>>
    /\ history[1].width = 3 /\ history[1].height = 3
    /\ history[1].data = Filled(9, CELL_OCCUPIED)
    /\ gridData[7] = CELL_OCCUPIED
    /\ gridData[1] = CELL_FREE

\* C10: clearGrid() is updateGrid(B, width, height) for the all-FREE buffer
\* B: afterwards every cell is FREE, width, height and metadata are as
\* before, and one history entry has been pushed.
ClearGridIsCommitOfFree ==
    [][last'.op = "clearGrid"
         => /\ UpdateGrid(Filled(width * height, CELL_FREE), width, height)
            /\ Len(gridData') = width * height
            /\ \A i \in 1..Len(gridData') : gridData'[i] = CELL_FREE
            /\ width' = width /\ height' = height /\ metadata' = metadata
            /\ Len(history') = PushedLen
            /\ historyIndex' = Len(history') - 1
            /\ history'[Len(history')] =
                   GridState(width, height, gridData', metadata)]_vars

\* C10 witness: clearGrid() was called on a grid with an OCCUPIED cell, and
\* the current entry is the all-FREE grid of the same size
ClearGridIsCommitOfFreeWitness ==
    /\ last.op = "clearGrid"
    /\ history[historyIndex + 1].width = history[historyIndex].width
    /\ historyIndex >= 1
    /\ \E i \in 1..Len(history[historyIndex].data) :
          history[historyIndex].data[i] = CELL_OCCUPIED
    /\ \A i \in 1..Len(gridData) : gridData[i] = CELL_FREE

\* C11: setStart, setGoal, clearStart and clearGoal are metadata-only and
\* independent.  Each leaves width, height, the buffer, resolution and origin
\* as they were; the start calls leave goal alone and the goal calls leave
\* start alone; setStart(a) followed by setGoal(b) gives start = a, goal = b.
MarkerOps == {"setStart", "setGoal", "clearStart", "clearGoal"}

MarkersIndependent ==
    [][/\ last'.op \in MarkerOps
            => /\ UNCHANGED <<width, height, gridData>>
               /\ metadata'.resolution = metadata.resolution
               /\ metadata'.origin = metadata.origin
       /\ last'.op \in {"setStart", "clearStart"}
            => metadata'.goal = metadata.goal
       /\ last'.op \in {"setGoal", "clearGoal"}
            => metadata'.start = metadata.start
       /\ last'.op = "setStart"
            => metadata'.start = {Point(last'.args[1], last'.args[2])}
       /\ last'.op = "setGoal"
            => metadata'.goal = {Point(last'.args[1], last'.args[2])}
       /\ last'.op = "clearStart" => metadata'.start = {}
       /\ last'.op = "clearGoal" => metadata'.goal = {}
       /\ (last.op = "setStart" /\ last'.op = "setGoal")
            => /\ metadata'.start = {Point(last.args[1], last.args[2])}
               /\ metadata'.goal = {Point(last'.args[1], last'.args[2])}]_vars

\* C11 witness: setGoal(b) was called with a start marker set, on another
\* cell than b, and both markers are held
MarkersIndependentWitness ==
    /\ last.op = "setGoal"
    /\ metadata.start # {}
    /\ metadata.goal = {Point(last.args[1], last.args[2])}
    /\ metadata.goal # metadata.start

\* C12: coordinate round-trip.  On every grid, displayToInternal undoes
\* internalToDisplay and internalToDisplay undoes displayToInternal on
\* integer points, display = internal - (floor(width / 2), floor(height / 2)),
\* and the cells of the grid correspond exactly to the display points of
\* [-floor(width/2), width - floor(width/2)) x
\* [-floor(height/2), height - floor(height/2)).
InDisplayRange(p) ==
    /\ p.x >= -Floor(width, 2) /\ p.x < width - Floor(width, 2)
    /\ p.y >= -Floor(height, 2) /\ p.y < height - Floor(height, 2)

CoordinateRoundTrip ==
    /\ calc.fn = "internalToDisplay"
          => /\ DisplayToInternal(calc.out.x, calc.out.y, width, height)
                   = calc.in
             /\ calc.out = Point(calc.in.x - Floor(width, 2),
                                 calc.in.y - Floor(height, 2))
             /\ InGrid(calc.in) <=> InDisplayRange(calc.out)
    /\ calc.fn = "displayToInternal"
          => /\ InternalToDisplay(calc.out.x, calc.out.y, width, height)
                   = calc.in
             /\ InDisplayRange(calc.in) <=> InGrid(calc.out)

\* C12 witness: the last cell of a grid of odd width and height converted
\* for display
CoordinateRoundTripWitness ==
    /\ calc.fn = "internalToDisplay"
    /\ width = 3 /\ height = 3
    /\ calc.in = Point(2, 2)
    /\ calc.out = Point(1, 1)

\* C13: origin shift invariance.  For a state with start (sx, sy) and
\* resolution r, shiftGridToStartOrigin returns the same buffer, width and
\* height, the same start and goal, the same resolution and theta, and the
\* origin (-(sx * r), -(sy * r)), which puts the start cell at world (0, 0).
OriginShiftInvariance ==
    (calc.fn = "shiftGridToStartOrigin" /\ calc.in.metadata.start # {}) =>
        LET s == TheOne(calc.in.metadata.start)
            r == calc.in.metadata.resolution
            old == calc.in.metadata
            new == calc.out.metadata
        IN  /\ calc.out.data = calc.in.data
            /\ calc.out.width = calc.in.width
            /\ calc.out.height = calc.in.height
            /\ new.start = old.start
            /\ new.goal = old.goal
            /\ new.resolution = old.resolution
            /\ new.origin.theta = old.origin.theta
            /\ new.origin.x = -(s.x * r)
            /\ new.origin.y = -(s.y * r)
            /\ new.origin.x + s.x * r = 0
            /\ new.origin.y + s.y * r = 0
            /\ DOMAIN new = DOMAIN old

\* C13 witness: the shift applied to an imported state with a world origin,
\* a start off the first row and column, and a goal
OriginShiftInvarianceWitness ==
    /\ calc.fn = "shiftGridToStartOrigin"
    /\ calc.in.metadata.start = {Point(MaxDim - 1, MaxDim - 1)}
    /\ calc.in.metadata.goal # {}
    /\ calc.in.metadata.origin.x # 0
    /\ calc.out.metadata.origin.x < 0

\* C14: without a start the start-relative shift is the identity:
\* shiftGridToStartOrigin returns its arguments, and every export taken with
\* shiftToStart carries the origin, start and goal of the same export taken
\* without it.
Carried(kind, out) ==
    CASE kind = "yaml" -> <<out.origin>>
      [] kind = "csv" -> <<out.start, out.goal>>
      [] kind = "json" -> <<out.metadata.origin, out.metadata.start,
                            out.metadata.goal>>
      [] kind = "pgm" -> <<>>

ShiftWithoutStartIsIdentity ==
    /\ (calc.fn = "shiftGridToStartOrigin" /\ calc.in.metadata.start = {})
          => calc.out = calc.in
    /\ (/\ calc.fn \in ExportKinds
        /\ calc.shiftToStart
        /\ calc.in.metadata.start = {})
          => Carried(calc.fn, calc.out)
                = Carried(calc.fn, ExportOf(calc.in, calc.fn, FALSE))

\* the buffer a finished maze call returned, and its FREE cells
MazeReturned ==
    /\ calc.fn = "generateRandomMap"
    /\ calc.mode = "maze"
    /\ calc.returned

CellOf(d, w, p) == d[p.y * w + p.x + 1]

FreeCells(d, w, h) ==
    {p \in Cells(w, h) : InBuffer(d, p.y * w + p.x) /\ CellOf(d, w, p) = CELL_FREE}

Adjacent(p, q) ==
    \/ p.x = q.x /\ (p.y = q.y + 1 \/ q.y = p.y + 1)
    \/ p.y = q.y /\ (p.x = q.x + 1 \/ q.x = p.x + 1)

RECURSIVE Reach(_, _)
Reach(S, F) ==
    LET N == S \cup {q \in F : \E p \in S : Adjacent(p, q)}
    IN  IF N = S THEN S ELSE Reach(N, F)

\* the 4-adjacency edges between cells of F, each counted once
Edges(F) ==
    {e \in F \X F : \/ e[2] = Point(e[1].x + 1, e[1].y)
                    \/ e[2] = Point(e[1].x, e[1].y + 1)}

\* C15: maze perfection.  For width >= 3 and height >= 3 and every sequence
\* of random choices, the FREE cells of the returned maze reachable from
\* (1, 1) by 4-connectivity are all its FREE cells, and the 4-adjacency graph
\* on the FREE cells has one edge less than it has cells (it is acyclic).
MazePerfection ==
    (MazeReturned /\ calc.width >= 3 /\ calc.height >= 3) =>
        LET F == FreeCells(calc.maze, calc.width, calc.height)
        IN  /\ Point(1, 1) \in F
            /\ Reach({Point(1, 1)}, F) = F
            /\ Cardinality(Edges(F)) = Cardinality(F) - 1

\* C15 witness: a returned 7x7 maze with its nine rooms and eight doors open
MazePerfectionWitness ==
    /\ MazeReturned
    /\ calc.width = 7 /\ calc.height = 7
    /\ Cardinality(FreeCells(calc.maze, 7, 7)) = 17
    /\ gridData = calc.maze

\* C16: maze border.  For every width and height, every cell on the outer
\* border of the returned maze is OCCUPIED and every FREE cell lies inside
\* 1..width-2 x 1..height-2.
MazeBorder ==
    MazeReturned =>
        LET w == calc.width
            h == calc.height
        IN  /\ \A p \in Cells(w, h) :
                  (p.x = 0 \/ p.x = w - 1 \/ p.y = 0 \/ p.y = h - 1)
                      => CellOf(calc.maze, w, p) = CELL_OCCUPIED
            /\ \A p \in FreeCells(calc.maze, w, h) :
                  /\ p.x >= 1 /\ p.x <= w - 2
                  /\ p.y >= 1 /\ p.y <= h - 2

\* C17: degenerate maze.  For width < 3 or height < 3 the maze call returns
\* a buffer of length width * height in which every cell is OCCUPIED.
DegenerateMaze ==
    (MazeReturned /\ (calc.width < 3 \/ calc.height < 3)) =>
        /\ Len(calc.maze) = calc.width * calc.height
        /\ \A i \in 1..Len(calc.maze) : calc.maze[i] = CELL_OCCUPIED

\* a finished bugtrap call and the corner (x0, y0) of its outer box
BugtrapReturned ==
    /\ calc.fn = "generateRandomMap"
    /\ calc.mode = "bugtrap"
    /\ calc.returned

TrapX0 == Floor(calc.width, 2) - Floor(calc.opts.length, 2)
TrapY0 == Floor(calc.height, 2) - Floor(calc.opts.width, 2)

TrapCell(x, y) == calc.newData[y * calc.width + x + 1]

\* C19: bugtrap aperture.  On a pre-cleared grid that contains the whole
\* structure, with 0 < a <= w - 2t, the back wall columns x0..x0+t-1 are
\* OCCUPIED on the rows y0..y0+w-1 except the a rows cy - floor(a/2) ..
\* cy + ceil(a/2) - 1, which are FREE; the top arm and the bottom arm are
\* OCCUPIED on every column x0..x0+l-1; for w = 20, l = 30, t = 2, a = 6 on
\* 64x64 the gap is 6 rows tall.
BugtrapAperture ==
    LET w == calc.opts.width
        l == calc.opts.length
        t == calc.opts.thickness
        a == calc.opts.aperture
        cy == Floor(calc.height, 2)
        gap == (cy - Floor(a, 2))..(cy + Floor(a + 1, 2) - 1)
        rows == TrapY0..(TrapY0 + w - 1)
    IN  (/\ BugtrapReturned
         /\ \A i \in 1..Len(calc.before) : calc.before[i] = CELL_FREE
         /\ TrapX0 >= 0 /\ TrapX0 + l <= calc.width /\ TrapX0 + t <= calc.width
         /\ TrapY0 >= 0 /\ TrapY0 + w <= calc.height
         /\ a > 0 /\ a <= w - 2 * t)
        => /\ gap \subseteq rows
           /\ Cardinality(gap) = a
           /\ \A x \in TrapX0..(TrapX0 + t - 1), y \in rows :
                 TrapCell(x, y) = IF y \in gap THEN CELL_FREE
                                  ELSE CELL_OCCUPIED
           /\ \A x \in TrapX0..(TrapX0 + l - 1) :
                 /\ \A y \in TrapY0..(TrapY0 + t - 1) :
                       TrapCell(x, y) = CELL_OCCUPIED
                 /\ \A y \in (TrapY0 + w - t)..(TrapY0 + w - 1) :
                       TrapCell(x, y) = CELL_OCCUPIED
           /\ (/\ calc.width = 64 /\ calc.height = 64
               /\ w = 20 /\ l = 30 /\ t = 2 /\ a = 6)
                 => Cardinality({y \in rows : TrapCell(TrapX0, y) = CELL_FREE})
                        = 6

\* C19 witness: the 20 x 30 trap of thickness 2 and aperture 6 drawn on the
\* 64x64 grid, its back wall open at mid-height and closed at the corner
BugtrapApertureWitness ==
    /\ BugtrapReturned
    /\ calc.width = 64 /\ calc.height = 64
    /\ calc.opts = TrapOf(20, 30, 2, 6)
    /\ TrapCell(TrapX0, 32) = CELL_FREE
    /\ TrapCell(TrapX0, TrapY0) = CELL_OCCUPIED
    /\ gridData = calc.newData

\* C20: bugtrap confinement and clipping.  For every width and length from 5
\* up, every thickness and aperture and every grid size, the call returns a
\* buffer of the grid's size in which every changed cell lies inside the
\* outer box [x0, x0 + l) x [y0, y0 + w); the cells outside keep their value.
BugtrapConfinement ==
    BugtrapReturned =>
        /\ Len(calc.newData) = calc.width * calc.height
        /\ \A p \in Cells(calc.width, calc.height) :
              TrapCell(p.x, p.y) # CellOf(calc.before, calc.width, p)
                  => /\ p.x >= TrapX0 /\ p.x < TrapX0 + calc.opts.length
                     /\ p.y >= TrapY0 /\ p.y < TrapY0 + calc.opts.width

\* C18: generators take the current buffer by value.  A generateRandomMap
\* call in maze or shapes mode leaves every cell of the caller's currentData
\* as it was and returns another buffer object; in maze mode the result is
\* the all-OCCUPIED buffer with the opened cells FREE, whatever currentData
\* and clearFirst are.
GeneratorsByValue ==
    (calc.fn = "generateRandomMap" /\ calc.mode \in {"maze", "shapes"}) =>
        /\ calc.currentData = history[1].data
        /\ calc.out # "currentData"
        /\ (calc.mode = "maze" /\ calc.returned)
              => calc.maze =
                    [i \in 1..(calc.width * calc.height) |->
                        IF Point((i - 1) % calc.width, (i - 1) \div calc.width)
                               \in calc.carved
                        THEN CELL_FREE ELSE CELL_OCCUPIED]

\* C18 witness: a shapes call without clearFirst returned a buffer with a
\* shape on it, and the caller's buffer is still all FREE
GeneratorsByValueWitness ==
    /\ calc.fn = "generateRandomMap"
    /\ calc.mode = "shapes"
    /\ calc.returned
    /\ ~calc.clearFirst
    /\ \E i \in 1..Len(calc.newData) : calc.newData[i] = CELL_OCCUPIED
    /\ \A i \in 1..Len(calc.currentData) : calc.currentData[i] = CELL_FREE
    /\ gridData = calc.newData

\* a shapes call, running or finished
ShapesCall == calc.fn = "generateRandomMap" /\ calc.mode = "shapes"

\* the OCCUPIED cells of a buffer of a w-wide grid
OccupiedCells(d, w) ==
    {Point((i - 1) % w, (i - 1) \div w) :
        i \in {j \in 1..Len(d) : d[j] = CELL_OCCUPIED}}

\* the Chebyshev distance of two cells
Chebyshev(p, q) ==
    Max(Max(p.x - q.x, q.x - p.x), Max(p.y - q.y, q.y - p.y))

\* C21: shape non-overlap.  With allowOverlap = false and spacing s, every
\* cell an accepted placement stamps is at Chebyshev distance > s from every
\* cell that was OCCUPIED before it; with s = 1 no two footprints, and no
\* footprint and obstacle of the starting buffer, are adjacent, diagonals
\* included.
ShapeNonOverlap ==
    (ShapesCall /\ ~calc.options.allowOverlap) =>
        /\ \A j \in 1..Len(calc.stamps) :
              \A p \in calc.stamps[j],
                 q \in OccupiedCells(calc.priors[j], calc.width) :
                  Chebyshev(p, q) > calc.options.spacing
        /\ calc.options.spacing = 1 =>
              /\ \A i \in 1..Len(calc.stamps), j \in 1..Len(calc.stamps) :
                    i < j => \A p \in calc.stamps[i], q \in calc.stamps[j] :
                                Chebyshev(p, q) > 1
              /\ \A j \in 1..Len(calc.stamps) :
                    \A p \in calc.stamps[j],
                       q \in OccupiedCells(calc.before, calc.width) :
                        Chebyshev(p, q) > 1

\* C21 witness: two shapes were placed on the grid with spacing 1 and the
\* call returned
ShapeNonOverlapWitness ==
    /\ ShapesCall
    /\ calc.returned
    /\ ~calc.options.allowOverlap
    /\ calc.options.spacing = 1
    /\ Len(calc.stamps) = 2
    /\ calc.stamps[1] # {} /\ calc.stamps[2] # {}

\* the attempts a shapes call may make
MaxAttempts(c) == c.options.count * AttemptsPerShape

\* C22: shape scatter budget.  A shapes call makes at most count * 100
\* attempts, an attempt counts whether its shape is placed or rejected, it
\* never places more than count shapes, and it returns exactly when count
\* shapes are placed or the budget has run out.
ScatterBudget ==
    [][/\ ShapesCall' =>
             /\ calc'.attempts <= MaxAttempts(calc')
             /\ calc'.placedCount <= calc'.options.count
             /\ calc'.placedCount <= calc'.attempts
             /\ calc'.returned <=>
                    \/ calc'.placedCount = calc'.options.count
                    \/ calc'.attempts = MaxAttempts(calc')
       /\ (ShapesCall /\ calc' # calc) =>
             /\ ~calc.returned
             /\ calc'.attempts = calc.attempts + 1
             /\ calc'.placedCount \in
                    {calc.placedCount, calc.placedCount + 1}
             /\ calc'.placedCount = calc.placedCount =>
                    calc'[calc.out] = calc[calc.out]]_vars

\* C22 witness: the call returned with its budget used up and nothing placed
ScatterBudgetWitness ==
    /\ ShapesCall
    /\ calc.returned
    /\ calc.attempts = MaxAttempts(calc)
    /\ calc.placedCount = 0
    /\ gridData = calc.currentData

\* the brightness of a pixel of the PNG image
Brightness(c) == c.r + c.g + c.b

\* the indices of the image a marker is drawn over
MarkerPixels(state) ==
    {i \in 1..(state.width * state.height) :
        (i - 1) \in MarkerIndex(state.metadata.start, state.width,
                                  state.height)
                      \cup MarkerIndex(state.metadata.goal, state.width,
                                       state.height)}

ImportValidation ==
    calc.fn = "GridImportSchema.parse" =>
        LET json == calc.in
            badSide(v) == ~IsInt(v) \/ v <= 0 \/ v > 2 * MaxSide
        IN  /\ (\/ badSide(json.width)
                \/ badSide(json.height)
                \/ json.metadata.resolution <= 0) => calc.out.threw
            /\ ~calc.out.threw =>
                  /\ DOMAIN calc.out.value =
                         {"width", "height", "data", "metadata"}
                  /\ DOMAIN calc.out.value.metadata = {"resolution", "origin"}
                  /\ calc.out.value = json

\* C25: history/state consistency.  In every state the history is not empty,
\* the cursor lies in 0..length - 1, and the store's width, height, gridData
\* and metadata are those of the history entry at the cursor.
HistoryStateConsistency ==
    /\ Len(history) >= 1
    /\ historyIndex >= 0
    /\ historyIndex < Len(history)
    /\ importMeta = {} => Current = history[historyIndex + 1]

\* the buffer object entry i of the history refers to holds the cells the
\* entry was pushed with
HeapView ==
    /\ Len(heap.history) = Len(history)
    /\ \A i \in 1..Len(history) : heap.cells[heap.history[i]] = history[i].data
    /\ heap.cells[heap.grid] = gridData

\* C26: history snapshots are immutable.  No call changes a cell, a dimension
\* or a metadata field of an entry that stays in the history - undo and redo
\* keep all entries, a mutating call those up to the cursor - although
\* entries share buffer objects, and every buffer an entry refers to holds
\* the cells the entry was pushed with.
SnapshotsImmutable ==
    [][LET kept == IF last'.op \in {"undo", "redo"} \/ last' = last
                   THEN 1..Len(history) ELSE 1..(historyIndex + 1)
       IN  /\ \A i \in kept :
                 /\ history'[i] = history[i]
                 /\ heap'.history[i] = heap.history[i]
                 /\ heap'.cells[heap.history[i]] = heap.cells[heap.history[i]]
           /\ HeapView']_vars

\* C26 witness: two entries share one buffer object, a later stroke wrote to
\* another one, and the stroke was undone
SnapshotsImmutableWitness ==
    /\ Len(history) = 3
    /\ heap.history[1] = heap.history[2]
    /\ heap.history[3] # heap.history[2]
    /\ history[3].data # history[2].data
    /\ historyIndex = 1
    /\ last.op = "undo"

\* a maze call, running or finished
MazeCall == calc.fn = "generateRandomMap" /\ calc.mode = "maze"

\* the cells the carving walks on: both coordinates odd
Lattice(p) == p.x % 2 = 1 /\ p.y % 2 = 1

\* C27: maze carving terminates.  Every iteration of the loop either pushes
\* a lattice cell that was not visited before, which is visited from then
\* on, or pops the top of the stack, so no cell is pushed twice; the call
\* returns with an empty stack, and every call returns.
MazeCarvingTerminates ==
    /\ [][(MazeCall /\ calc' # calc) =>
             LET top == calc'.stack[Len(calc'.stack)]
             IN  /\ ~calc.returned
                 /\ calc.visited \subseteq calc'.visited
                 /\ \/ /\ Len(calc'.stack) = Len(calc.stack) + 1
                       /\ calc'.stack = Append(calc.stack, top)
                       /\ Lattice(top)
                       /\ top \notin calc.visited
                       /\ calc'.visited = calc.visited \cup {top}
                    \/ /\ calc'.stack = SubSeq(calc.stack, 1,
                                               Len(calc.stack) - 1)
                       /\ calc'.visited = calc.visited
                       /\ calc'.returned <=> calc'.stack = <<>>]_vars
    /\ [](MazeCall =>
             /\ calc.returned => calc.stack = <<>>
             /\ \A k \in 1..Len(calc.stack) : calc.stack[k] \in calc.visited
             /\ \A j \in 1..Len(calc.stack), k \in 1..Len(calc.stack) :
                   calc.stack[j] = calc.stack[k] => j = k)
    /\ [](MazeCall => <>(MazeCall /\ calc.returned))

\* C27 witness: a call that visited six lattice cells has returned
MazeCarvingTerminatesWitness ==
    /\ MazeCall
    /\ calc.returned
    /\ Cardinality(calc.visited) = 6
    /\ calc.stack = <<>>

\* a shapes or bugtrap call, running or finished
AddingCall ==
    calc.fn = "generateRandomMap" /\ calc.mode \in {"shapes", "bugtrap"}

\* C28: shapes and bugtrap only add obstacles.  The buffer the call works on
\* starts as a copy of currentData, or all FREE with clearFirst; every cell
\* that was OCCUPIED at the start stays OCCUPIED and every cell that changes
\* becomes OCCUPIED; with clearFirst the result is made of the stamped shapes,
\* or of the trap drawn on a FREE grid, whatever currentData holds.
OnlyAddObstacles ==
    AddingCall =>
        LET b == calc.before
            d == calc[calc.out]
            free == Filled(calc.width * calc.height, CELL_FREE)
        IN  /\ b = IF calc.clearFirst THEN free ELSE calc.currentData
            /\ calc.currentData = history[1].data
            /\ Len(d) = Len(b)
            /\ \A i \in 1..Len(b) :
                  /\ b[i] = CELL_OCCUPIED => d[i] = CELL_OCCUPIED
                  /\ d[i] # b[i] => d[i] = CELL_OCCUPIED
            /\ (calc.clearFirst /\ calc.mode = "shapes") =>
                  OccupiedCells(d, calc.width) =
                      UNION {calc.stamps[j] : j \in 1..Len(calc.stamps)}
            /\ (calc.clearFirst /\ calc.mode = "bugtrap") =>
                  d = GenerateBugtrap(free, calc.width, calc.height, calc.opts)

\* C28 witness: a shapes call without clearFirst has stamped a shape on a
\* grid that held an obstacle, and returned
OnlyAddObstaclesWitness ==
    /\ AddingCall
    /\ calc.mode = "shapes"
    /\ ~calc.clearFirst
    /\ calc.returned
    /\ OccupiedCells(calc.currentData, calc.width) # {}
    /\ calc.stamps # <<>>
    /\ calc.stamps[1] # {}
    /\ OccupiedCells(calc.newData, calc.width) #
           OccupiedCells(calc.currentData, calc.width)

\* C29: interactive crop/expand keeps the opposite edge fixed.  After the
\* left (top) handle was dragged by any number of cells, the resize issued on
\* mouse-up keeps the old content aligned to the right (bottom) edge: the
\* k-th column (row) counted from that edge holds what it held before, for
\* every k below both the old and the new width (height).
OppositeEdgeFixed ==
    (calc.fn = "handleResizeUpWindow" /\ calc.resized) =>
        LET old == history[1]
            cell(state, x, y) == state.data[y * state.width + x + 1]
        IN  /\ calc.node = "left" =>
                  \A k \in 0..(Min(old.width, width) - 1),
                     y \in 0..(height - 1) :
                      cell(Current, width - 1 - k, y) =
                          cell(old, old.width - 1 - k, y)
            /\ calc.node = "top" =>
                  \A k \in 0..(Min(old.height, height) - 1),
                     x \in 0..(width - 1) :
                      cell(Current, x, height - 1 - k) =
                          cell(old, x, old.height - 1 - k)

\* the interior lattice cells of a w by h grid
InteriorLattice(w, h) ==
    {p \in Cells(w, h) : /\ Lattice(p)
                         /\ p.x > 0 /\ p.x < w - 1 /\ p.y > 0 /\ p.y < h - 1}

\* the midpoints between two lattice cells of L that are neighbours in a row
\* or a column
Midpoints(L) ==
    {Point((p.x + q.x) \div 2, (p.y + q.y) \div 2) :
        <<p, q>> \in {pq \in L \X L :
                         \/ /\ pq[1].y = pq[2].y /\ pq[2].x = pq[1].x + 2
                         \/ /\ pq[1].x = pq[2].x /\ pq[2].y = pq[1].y + 2}}

\* C30: maze completeness.  For width and height of at least 3, in the
\* returned maze every interior lattice cell is FREE, every FREE cell is an
\* interior lattice cell or the midpoint between two neighbouring ones, and
\* there are 2 * L - 1 FREE cells for L interior lattice cells.
MazeCompleteness ==
    (MazeReturned /\ calc.width >= 3 /\ calc.height >= 3) =>
        LET L == InteriorLattice(calc.width, calc.height)
            F == FreeCells(calc.maze, calc.width, calc.height)
        IN  /\ L \subseteq F
            /\ F \subseteq L \cup Midpoints(L)
            /\ Cardinality(F) = 2 * Cardinality(L) - 1
            /\ calc.visited = L

\* C30 witness: a returned maze of 7 by 5 cells, with six rooms and five doors
MazeCompletenessWitness ==
    /\ MazeReturned
    /\ calc.width = 7 /\ calc.height = 5
    /\ Cardinality(InteriorLattice(7, 5)) = 6
    /\ Cardinality(FreeCells(calc.maze, 7, 5)) = 11

====
